---- MODULE Spec2Model ----
(***************************************************************************)
(* The chat-session state and the response-extraction / fallback logic of  *)
(* the two Streamlit front ends:                                           *)
(*   src/app.py     hosted API front end (Gemini)                          *)
(*   src/ollama.py  local model front end (Ollama)                         *)
(*                                                                         *)
(* One action is one script run of the front end (one widget interaction). *)
(* st.session_state (messages, total_tokens, user_input) and the sidebar   *)
(* controls (params) survive between runs; what a run requested from the   *)
(* backend and what it displayed (st.error, st.info, st.success) is kept   *)
(* in requests / shown / response / fallback / response_text, which every  *)
(* run starts blank.  The redraw that st.rerun() starts at the end of a    *)
(* handler calls nothing and changes nothing, and is part of the action.   *)
(* Timestamps of turns are wall-clock strings and are left out.            *)
(***************************************************************************)
EXTENDS Integers, Sequences, FiniteSets, TLC

VARIABLES
    app,            \* which front end this session runs: "hosted" | "local"
    messages,       \* st.session_state.messages
    total_tokens,   \* st.session_state.total_tokens (hosted only; stays 0 in local)
    user_input,     \* content of the text area (key="user_input")
    params,         \* current values of the sidebar controls
    requests,       \* generation calls issued by the last run, in order
    shown,          \* message boxes displayed by the last run, in order
    response,       \* what the primary backend call of the last run produced
    fallback,       \* what the second backend call of the last run produced
    response_text   \* hosted: which branch set the local response_text

vars == <<app, messages, total_tokens, user_input, params,
          requests, shown, response, fallback, response_text>>

-----------------------------------------------------------------------------
(* Bounds of the model *)

MaxTurns == 4   \* a send is modelled only while the history can take both its turns
MaxCands == 1   \* most candidates in a structured response

(* Program constants *)

FINISH_STOP == 1
FINISH_SAFETY == 2
HTTP_OK == 200
POST_TIMEOUT == 30

-----------------------------------------------------------------------------
(* Texts: strings are sequences of characters, "a" a letter, " " whitespace *)

(* The texts typed and returned: empty, blank, one word, two words          *)
Texts == { <<>>, <<" ">>, <<"a">>, <<"a", " ", "a">> }

IsSpace(c) == c = " "

(* str.split() with no argument: the maximal runs of non-whitespace         *)
RECURSIVE SplitFrom(_, _, _, _)
SplitFrom(s, i, cur, acc) ==
    IF i > Len(s)
    THEN IF cur = <<>> THEN acc ELSE Append(acc, cur)
    ELSE IF IsSpace(s[i])
         THEN SplitFrom(s, i + 1, <<>>, IF cur = <<>> THEN acc ELSE Append(acc, cur))
         ELSE SplitFrom(s, i + 1, Append(cur, s[i]), acc)

Split(s) == SplitFrom(s, 1, <<>>, <<>>)

(* len(text.split()) *)
WordCount(s) == Len(Split(s))

RECURSIVE SumWords(_)
SumWords(ms) ==
    IF ms = <<>> THEN 0 ELSE WordCount(Head(ms).content) + SumWords(Tail(ms))

-----------------------------------------------------------------------------
(* Inputs *)

Errors == {"ConnectionError", "Timeout"}

HostedParams ==
    { [temperature |-> 7, max_tokens |-> 1500, top_p |-> 95, top_k |-> 40],
      [temperature |-> 0, max_tokens |-> 100, top_p |-> 0, top_k |-> 1] }

LocalParams ==
    { [selected_model |-> "llama2", temperature |-> 7, num_predict |-> 1000],
      [selected_model |-> "mistral", temperature |-> 0, num_predict |-> 100] }

ParamsOf(a) == IF a = "hosted" THEN HostedParams ELSE LocalParams

FinishReasons == {FINISH_STOP, FINISH_SAFETY, 3}

NoCall == [kind |-> "none"]

Raise(e) == [kind |-> "raise", err |-> e]

(* What generate_content can hand back.  hasResult: hasattr(response,       *)
(* '_result'); ncands: len(_result.candidates); finish_reason, content,     *)
(* part_text: the first candidate (content "absent": no attribute; "none":  *)
(* the attribute is there but reading .parts of it raises; "noparts": empty *)
(* parts; "parts": parts[0].text = part_text); text: the .text accessor     *)
(* ("absent": no attribute; "raises": reading it raises; "ok": text_value). *)
(* Fields the code path cannot read are held at one value.                  *)
Unstructured ==
    { [kind |-> "obj", hasResult |-> FALSE, ncands |-> 0,
       finish_reason |-> FINISH_STOP, content |-> "absent", part_text |-> <<>>,
       text |-> t, text_value |-> v] :
         t \in {"absent", "raises"}, v \in {<<>>} }
    \cup
    { [kind |-> "obj", hasResult |-> FALSE, ncands |-> 0,
       finish_reason |-> FINISH_STOP, content |-> "absent", part_text |-> <<>>,
       text |-> "ok", text_value |-> v] : v \in Texts }

NoCandidates ==
    { [kind |-> "obj", hasResult |-> TRUE, ncands |-> 0,
       finish_reason |-> FINISH_STOP, content |-> "absent", part_text |-> <<>>,
       text |-> "raises", text_value |-> <<>>] }

WithCandidates ==
    { [kind |-> "obj", hasResult |-> TRUE, ncands |-> n,
       finish_reason |-> f, content |-> c, part_text |-> <<>>,
       text |-> "raises", text_value |-> <<>>] :
         n \in 1..MaxCands, f \in FinishReasons, c \in {"absent", "none", "noparts"} }
    \cup
    { [kind |-> "obj", hasResult |-> TRUE, ncands |-> n,
       finish_reason |-> f, content |-> "parts", part_text |-> p,
       text |-> "raises", text_value |-> <<>>] :
         n \in 1..MaxCands, f \in FinishReasons, p \in Texts }

PrimaryResponses ==
    {Raise(e) : e \in Errors} \cup Unstructured \cup NoCandidates \cup WithCandidates

(* The retry reads nothing but the .text accessor of its response           *)
AltResponses ==
    {Raise(e) : e \in Errors}
    \cup Unstructured
    \cup { [kind |-> "obj", hasResult |-> TRUE, ncands |-> 1,
            finish_reason |-> FINISH_STOP, content |-> "parts", part_text |-> v,
            text |-> "ok", text_value |-> v] : v \in Texts }
    \cup { [kind |-> "obj", hasResult |-> TRUE, ncands |-> 1,
            finish_reason |-> FINISH_SAFETY, content |-> "noparts", part_text |-> <<>>,
            text |-> t, text_value |-> <<>>] : t \in {"absent", "raises"} }

(* chain.invoke: a string, or an exception                                  *)
ChainResults == {Raise(e) : e \in Errors} \cup {[kind |-> "ok", text_value |-> v] : v \in Texts}

(* requests.post: an exception (a timeout among them), or an HTTP response; *)
(* json "response": a body with the key; "nokey": a body without it;        *)
(* "invalid": response.json() raises                                        *)
PostResults ==
    {Raise(e) : e \in Errors}
    \cup { [kind |-> "http", status_code |-> HTTP_OK, json |-> "response", text_value |-> v] :
             v \in Texts }
    \cup { [kind |-> "http", status_code |-> HTTP_OK, json |-> j, text_value |-> <<>>] :
             j \in {"nokey", "invalid"} }
    \cup { [kind |-> "http", status_code |-> 500, json |-> "invalid", text_value |-> <<>>] }

-----------------------------------------------------------------------------
(* Turns *)

UserTurn(text) == [role |-> "user", content |-> text, model |-> "-"]

AssistantTurn(text, m) == [role |-> "assistant", content |-> text, model |-> m]

ReplaceByTurn(ms, turn) == <<turn>>

(* st.session_state.messages.append(turn)                                   *)
AppendTurn(ms, turn) == Append(ms, turn)

AnyInput(text) == TRUE

(* The truth value of user_input in `if send_button and user_input`         *)
HasInput(text) == text # <<>>

-----------------------------------------------------------------------------
(* Hosted front end: the send handler of src/app.py *)

PRIMARY_MODEL_NAME == "models/gemini-2.5-flash"

AltModelNamePrefixed == "models/gemini-2.5-flash"

ALT_MODEL_NAME == "gemini-2.5-flash"

(* genai.GenerativeModel(model_name=..., generation_config={...})           *)
(*      .generate_content(user_input)                                       *)
(* generation_config = {"temperature": temperature, "max_output_tokens":    *)
(* max_tokens, "top_p": top_p, "top_k": top_k}                              *)
GenerationConfig(p) ==
    [temperature |-> p.temperature, max_output_tokens |-> p.max_tokens,
     top_p |-> p.top_p, top_k |-> p.top_k]

PrimaryRequest(p, prompt) ==
    [api |-> "generate_content", model_name |-> PRIMARY_MODEL_NAME,
     generation_config |-> GenerationConfig(p), prompt |-> prompt]

(* A model built without generation_config generates under the provider's  *)
(* defaults                                                                 *)
ProviderDefaults == [provider_defaults |-> TRUE]

(* genai.GenerativeModel("gemini-2.5-flash").generate_content(user_input):  *)
(* no generation_config is passed                                           *)
AltRequest(p, prompt) ==
    [api |-> "generate_content", model_name |-> ALT_MODEL_NAME,
     generation_config |-> ProviderDefaults, prompt |-> prompt]

(* What the try block did: raised / err: an exception left it; turns: the   *)
(* turns it appended; tokens: what it added to total_tokens; response_text: *)
(* the branch that assigned response_text                                   *)
Outcome(raised, err, turns, tokens, rt) ==
    [raised |-> raised, err |-> err, turns |-> turns, tokens |-> tokens,
     response_text |-> rt]

BranchSafetyAsStop(r) ==
    IF r.finish_reason \in {FINISH_STOP, FINISH_SAFETY} THEN "stop" ELSE "other"

(* if candidate.finish_reason == 1 ... elif candidate.finish_reason == 2 ... else *)
Branch(r) ==
    IF r.finish_reason = FINISH_STOP THEN "stop"
    ELSE IF r.finish_reason = FINISH_SAFETY THEN "safety"
    ELSE "other"

(* The extraction of lines 344-383 on a response object                     *)
Extract(r) ==
    IF r.hasResult
    THEN IF r.ncands > 0
         THEN CASE Branch(r) = "stop" ->
                     IF r.content = "none"
                     THEN Outcome(TRUE, "AttributeError", <<>>, 0, "unset")
                     ELSE IF r.content = "parts"
                     THEN Outcome(FALSE, "-",
                                  <<AssistantTurn(r.part_text, "Gemini 2.5 Flash")>>,
                                  WordCount(r.part_text), "text")
                     ELSE Outcome(FALSE, "-", <<>>, 0, "NoTextContent")
                [] Branch(r) = "safety" -> Outcome(FALSE, "-", <<>>, 0, "Blocked")
                [] OTHER -> Outcome(FALSE, "-", <<>>, 0, "UnknownFinish")
         ELSE Outcome(FALSE, "-", <<>>, 0, "NoResponse")
    ELSE IF r.text = "ok"
         THEN Outcome(FALSE, "-", <<AssistantTurn(r.text_value, "-")>>,
                      WordCount(r.text_value), "text")
         ELSE Outcome(FALSE, "-", <<>>, 0, "CouldNotExtract")

(* The whole try block of lines 328-389                                     *)
Primary(resp) ==
    IF resp.kind = "raise"
    THEN Outcome(TRUE, resp.err, <<>>, 0, "unset")
    ELSE Extract(resp)

RetryAlways(out) == TRUE

(* The except branch is entered when, and only when, the try block raised;  *)
(* st.rerun() at its end leaves the script otherwise                        *)
EntersExcept(out) == out.raised

(* st.error(f"<msg>: {str(e)}"), st.info(msg), st.success(msg)              *)
ErrorBox(msg, e) == [box |-> "error", msg |-> msg, err |-> e]

InfoBox(msg) == [box |-> "info", msg |-> msg, err |-> "-"]

SuccessBox(msg) == [box |-> "success", msg |-> msg, err |-> "-"]

WarningBox(msg) == [box |-> "warning", msg |-> msg, err |-> "-"]

IsError(b) == b.box = "error"

ErrorsOf(boxes) == SelectSeq(boxes, IsError)

AltFailedKeepsTurn(e) ==
    [turns |-> <<AssistantTurn(<<>>, "-")>>, errors |-> <<ErrorBox("Alternative also failed", e)>>]

(* except Exception as e2: st.error(f"Alternative also failed: {str(e2)}")  *)
AltFailed(e) ==
    [turns |-> <<>>, errors |-> <<ErrorBox("Alternative also failed", e)>>]

(* Lines 396-411: hasattr(response, 'text') lets any exception but          *)
(* AttributeError through, and an accessor that is not there appends nothing*)
Alternative(alt) ==
    IF alt.kind = "raise" THEN AltFailed(alt.err)
    ELSE IF alt.text = "absent" THEN [turns |-> <<>>, errors |-> <<>>]
    ELSE IF alt.text = "raises" THEN AltFailed("ValueError")
    ELSE [turns |-> <<AssistantTurn(alt.text_value, "-")>>, errors |-> <<>>]

SendHosted ==
    /\ app = "hosted"
    /\ HasInput(user_input)
    /\ Len(messages) + 2 <= MaxTurns
    /\ \E resp \in PrimaryResponses :
         LET out == Primary(resp)
             history == AppendTurn(messages, UserTurn(user_input)) \o out.turns
             tokens == total_tokens + WordCount(user_input) + out.tokens
         IN  IF EntersExcept(out)
             THEN \E alt \in AltResponses :
                    LET second == Alternative(alt) IN
                    /\ messages' = history \o second.turns
                    /\ total_tokens' = tokens
                    /\ requests' = <<PrimaryRequest(params, user_input),
                                     AltRequest(params, user_input)>>
                    /\ shown' = <<ErrorBox("Error", out.err),
                                  InfoBox("Trying alternative approach...")>>
                                 \o second.errors
                    /\ response' = resp
                    /\ fallback' = alt
                    /\ response_text' = out.response_text
             ELSE /\ messages' = history
                  /\ total_tokens' = tokens
                  /\ requests' = <<PrimaryRequest(params, user_input)>>
                  /\ shown' = <<>>
                  /\ response' = resp
                  /\ fallback' = NoCall
                  /\ response_text' = out.response_text
    /\ UNCHANGED <<app, user_input, params>>

-----------------------------------------------------------------------------
(* Local front end: the send handler of src/ollama.py *)

ChainRequest(p, prompt) ==
    [api |-> "chain.invoke", model |-> p.selected_model,
     temperature |-> p.temperature, num_predict |-> p.num_predict,
     input |-> prompt]

PayloadStreaming(p, prompt) ==
    [model |-> p.selected_model, prompt |-> prompt, stream |-> TRUE,
     options |-> [temperature |-> p.temperature, num_predict |-> p.num_predict]]

(* payload = {"model": ..., "prompt": ..., "stream": False, "options": {...}} *)
Payload(p, prompt) ==
    [model |-> p.selected_model, prompt |-> prompt, stream |-> FALSE,
     options |-> [temperature |-> p.temperature, num_predict |-> p.num_predict]]

(* requests.post("http://localhost:11434/api/generate", json=payload, timeout=30) *)
PostRequest(p, prompt) ==
    [api |-> "POST /api/generate", payload |-> Payload(p, prompt),
     timeout |-> POST_TIMEOUT]

(* Lines 183-216                                                            *)
Method1(p, res) ==
    IF res.kind = "raise"
    THEN Outcome(TRUE, res.err, <<>>, 0, "unset")
    ELSE Outcome(FALSE, "-", <<AssistantTurn(res.text_value, p.selected_model)>>, 0, "unset")

(* except Exception as e2: st.error(f"Direct API also failed: {str(e2)}")   *)
DirectFailed(first, e) ==
    [turns |-> <<>>, errors |-> <<ErrorBox("Direct API also failed", e),
                                  InfoBox("Troubleshooting steps")>>]

(* Lines 225-270; first is the exception of Method 1                        *)
Method2(p, first, post) ==
    IF post.kind = "raise" THEN DirectFailed(first, post.err)
    ELSE IF post.status_code = HTTP_OK
    THEN IF post.json = "invalid" THEN DirectFailed(first, "JSONDecodeError")
         ELSE [turns |-> <<AssistantTurn(IF post.json = "response" THEN post.text_value ELSE <<>>,
                                         p.selected_model)>>,
               errors |-> <<>>]
    ELSE [turns |-> <<>>, errors |-> <<ErrorBox("Ollama API error", post.status_code)>>]

SendLocal ==
    /\ app = "local"
    /\ HasInput(user_input)
    /\ Len(messages) + 2 <= MaxTurns
    /\ \E res \in ChainResults :
         LET out == Method1(params, res)
             history == AppendTurn(messages, UserTurn(user_input)) \o out.turns
         IN  IF EntersExcept(out)
             THEN \E post \in PostResults :
                    LET second == Method2(params, out.err, post) IN
                    /\ messages' = history \o second.turns
                    /\ requests' = <<ChainRequest(params, user_input),
                                     PostRequest(params, user_input)>>
                    /\ shown' = <<ErrorBox("LangChain error", out.err),
                                  InfoBox("Trying direct Ollama API...")>>
                                 \o second.errors
                    /\ response' = res
                    /\ fallback' = post
             ELSE /\ messages' = history
                  /\ requests' = <<ChainRequest(params, user_input)>>
                  /\ shown' = <<>>
                  /\ response' = res
                  /\ fallback' = NoCall
    /\ response_text' = "unset"
    /\ UNCHANGED <<app, total_tokens, user_input, params>>

-----------------------------------------------------------------------------
(* Runs that call no backend *)

BlankRun ==
    /\ requests' = <<>>
    /\ shown' = <<>>
    /\ response' = NoCall
    /\ fallback' = NoCall
    /\ response_text' = "unset"

ClearedKeepsTokens == [messages |-> <<>>, total_tokens |-> total_tokens]

(* st.session_state.messages = []; st.session_state.total_tokens = 0        *)
Cleared == [messages |-> <<>>, total_tokens |-> 0]

ClearNotice ==
    SuccessBox(IF app = "hosted" THEN "Chat history cleared!" ELSE "Chat cleared!")

(* The Clear button of either front end                                     *)
Clear ==
    /\ messages' = Cleared.messages
    /\ total_tokens' = Cleared.total_tokens
    /\ requests' = <<>>
    /\ shown' = <<ClearNotice>>
    /\ response' = NoCall
    /\ fallback' = NoCall
    /\ response_text' = "unset"
    /\ UNCHANGED <<app, user_input, params>>

(* The user edits the text area                                             *)
TypeInput ==
    /\ \E t \in Texts : t # user_input /\ user_input' = t
    /\ BlankRun
    /\ UNCHANGED <<app, messages, total_tokens, params>>

(* The user moves a sidebar control                                         *)
SetParams ==
    /\ \E p \in ParamsOf(app) : p # params /\ params' = p
    /\ BlankRun
    /\ UNCHANGED <<app, messages, total_tokens, user_input>>

(* Send clicked on an empty text area: `if send_button and user_input` fails *)
SendEmpty ==
    /\ ~HasInput(user_input)
    /\ BlankRun
    /\ UNCHANGED <<app, messages, total_tokens, user_input, params>>

(* The quick questions / example questions are fixed texts of several      *)
(* words; the two-word text stands for them                                 *)
QuickQuestions == { <<"a", " ", "a">> }

(* A quick-action (hosted) or example (local) button:                       *)
(*     st.session_state.user_input = question; st.rerun()                   *)
(* The text area of that key already exists in the run, and Streamlit may   *)
(* refuse the assignment with an exception instead of carrying it out.      *)
QuickAction ==
    /\ \E q \in QuickQuestions :
         \/ /\ user_input' = q
            /\ shown' = <<>>
         \/ /\ user_input' = user_input
            /\ shown' = <<ErrorBox("StreamlitAPIException", "user_input")>>
    /\ requests' = <<>>
    /\ response' = NoCall
    /\ fallback' = NoCall
    /\ response_text' = "unset"
    /\ UNCHANGED <<app, messages, total_tokens, params>>

(* requests.get("http://localhost:11434/api/tags", timeout=5): "listing":   *)
(* status 200 and a JSON body; "badjson": status 200, response.json()       *)
(* raises; "status": another status; "raise": the call raises               *)
TagsResults == {"listing", "badjson", "status", "raise"}

NotRunning ==
    <<ErrorBox("Ollama not running or not installed", "-"), InfoBox("To start Ollama")>>

(* Lines 111-128 of src/ollama.py: what the connection check displays       *)
ConnectionStatus(res) ==
    CASE res = "listing" -> <<SuccessBox("Ollama is running!")>>
      [] res = "badjson" -> <<SuccessBox("Ollama is running!")>> \o NotRunning
      [] res = "status" -> <<WarningBox("Ollama responded with error")>>
      [] OTHER -> NotRunning

(* The Check Ollama Connection button of the local front end                *)
CheckConnection ==
    /\ app = "local"
    /\ \E res \in TagsResults : shown' = ConnectionStatus(res)
    /\ requests' = <<>>
    /\ response' = NoCall
    /\ fallback' = NoCall
    /\ response_text' = "unset"
    /\ UNCHANGED <<app, messages, total_tokens, user_input, params>>

-----------------------------------------------------------------------------

DefaultParams(a) ==
    IF a = "hosted"
    THEN [temperature |-> 7, max_tokens |-> 1500, top_p |-> 95, top_k |-> 40]
    ELSE [selected_model |-> "llama2", temperature |-> 7, num_predict |-> 1000]

Init ==
    /\ app \in {"hosted", "local"}
    /\ messages = <<>>
    /\ total_tokens = 0
    /\ user_input = <<>>
    /\ params = DefaultParams(app)
    /\ requests = <<>>
    /\ shown = <<>>
    /\ response = NoCall
    /\ fallback = NoCall
    /\ response_text = "unset"

Next ==
    \/ SendHosted
    \/ SendLocal
    \/ Clear
    \/ TypeInput
    \/ SetParams
    \/ SendEmpty
    \/ QuickAction
    \/ CheckConnection

Spec == Init /\ [][Next]_vars

-----------------------------------------------------------------------------
(* Properties.  A state whose requests is not empty is the state a send     *)
(* left: its last turns, requests, shown, response and fallback are that    *)
(* submit's.                                                                *)

Last(ms) == ms[Len(ms)]

EndsWithUserTurn == Len(messages) >= 1 /\ Last(messages) = UserTurn(user_input)

EndsWithPair ==
    /\ Len(messages) >= 2
    /\ messages[Len(messages) - 1] = UserTurn(user_input)
    /\ Last(messages).role = "assistant"

Structured(r) == r.kind = "obj" /\ r.hasResult

FirstCandidateHas(r, code) == Structured(r) /\ r.ncands > 0 /\ r.finish_reason = code

(* C1: in the hosted front end total_tokens is, in every reachable state,   *)
(* exactly the sum of the word counts of the contents of all turns in       *)
(* messages.                                                                *)
C1_TokensEqualWordSum ==
    app = "hosted" => total_tokens = SumWords(messages)

(* C2: in the hosted front end a response whose first candidate has the     *)
(* safety-block finish code makes the submit append an assistant turn, so   *)
(* that the history ends with the user turn followed by an assistant turn.  *)
C2_BlockedAppendsAssistantTurn ==
    (app = "hosted" /\ FirstCandidateHas(response, FINISH_SAFETY)) => EndsWithPair

NothingExtractable(r) ==
    \/ Structured(r) /\ r.ncands > 0 /\ r.finish_reason \notin {FINISH_STOP, FINISH_SAFETY}
    \/ r.kind = "obj" /\ ~r.hasResult /\ r.text # "ok"

(* C3: in the hosted front end a response from which no text can be         *)
(* extracted (a finish code that is neither normal-stop nor safety-block,   *)
(* or no structured result and a failing .text) makes the submit append an  *)
(* assistant turn after the user turn.                                      *)
C3_ExtractionFailureAppendsAssistantTurn ==
    (app = "hosted" /\ NothingExtractable(response)) => EndsWithPair

Paired(ms) ==
    \A i \in 1..Len(ms) :
        ms[i].role = "assistant" => (i > 1 /\ ms[i - 1].role = "user")

(* C4: in both front ends every step keeps each assistant turn immediately  *)
(* behind a user turn (none first, no two adjacent), and a submit appends   *)
(* to the unchanged history exactly its user turn followed by at most one   *)
(* assistant turn; a step that is no submit appends nothing.                *)
C4_Pairing ==
    [][ /\ Paired(messages')
        /\ requests' # <<>> =>
             LET n == Len(messages) IN
             /\ Len(messages') \in {n + 1, n + 2}
             /\ SubSeq(messages', 1, n) = messages
             /\ messages'[n + 1] = UserTurn(user_input)
             /\ Len(messages') = n + 2 => messages'[n + 2].role = "assistant"
        /\ requests' = <<>> => messages' \in {messages, <<>>} ]_vars

C4_Witness ==
    /\ Len(messages) = 4
    /\ [i \in 1..4 |-> messages[i].role] = <<"user", "assistant", "user", "assistant">>
    /\ Len(requests) = 2

(* C5: in both front ends, when the primary backend call raises and the one *)
(* fallback call raises too, the submit leaves the history grown by exactly *)
(* its user turn, the last error shown carries the second error, and the    *)
(* submit has issued just those two calls.                                  *)
C5_FallbackExhaustion ==
    [][ (requests' # <<>> /\ response'.kind = "raise" /\ fallback'.kind = "raise") =>
          /\ messages' = Append(messages, UserTurn(user_input))
          /\ ErrorsOf(shown') # <<>>
          /\ Last(ErrorsOf(shown')).err = fallback'.err
          /\ Last(ErrorsOf(shown')).msg \in {"Alternative also failed", "Direct API also failed"}
          /\ Len(requests') = 2 ]_vars

C5_Witness ==
    /\ app = "local"
    /\ requests # <<>>
    /\ response = Raise("ConnectionError")
    /\ fallback = Raise("Timeout")
    /\ Len(messages) = 3

UsedPlainAccessor(r) == r.kind = "obj" /\ r.text = "ok"

(* C6: in the hosted front end the text of an appended turn comes from the  *)
(* plain .text accessor only when the response read has no structured       *)
(* result field, and never after the processing of a present structured     *)
(* result raised.                                                           *)
C6_PlainAccessorOnlyWhenInapplicable ==
    app = "hosted" =>
      /\ (UsedPlainAccessor(response) /\ Last(messages).role = "assistant") =>
            ~response.hasResult
      /\ UsedPlainAccessor(fallback) => (~fallback.hasResult /\ ~Structured(response))

(* C7: in the hosted front end a structured response whose first candidate  *)
(* has the safety-block finish code ends in the blocked branch, with or     *)
(* without content parts, and no text of it becomes a turn; a structured    *)
(* response with no candidates ends in the no-response branch; neither is   *)
(* retried.                                                                 *)
C7_BlockedAndEmpty ==
    app = "hosted" =>
      /\ FirstCandidateHas(response, FINISH_SAFETY) =>
            (response_text = "Blocked" /\ EndsWithUserTurn /\ fallback = NoCall
             /\ Len(requests) = 1)
      /\ (Structured(response) /\ response.ncands = 0) =>
            (response_text = "NoResponse" /\ EndsWithUserTurn /\ fallback = NoCall
             /\ Len(requests) = 1)

C7_Witness ==
    /\ app = "hosted"
    /\ FirstCandidateHas(response, FINISH_SAFETY)
    /\ response.content = "parts"
    /\ WordCount(response.part_text) = 2
    /\ response_text = "Blocked"

(* C8: in the local front end a submit issues the direct HTTP call exactly  *)
(* when the LangChain invocation raised; the call carries stream = false,   *)
(* the 30-unit timeout and the model id, prompt, temperature and            *)
(* num_predict of the first call; if it raises too (a timeout included) the *)
(* last error shown carries that second error and no assistant turn is      *)
(* appended.                                                                *)
C8_DirectCallFallback ==
    (app = "local" /\ requests # <<>>) =>
      /\ Len(requests) \in {1, 2}
      /\ requests[1].api = "chain.invoke"
      /\ requests[1].model = params.selected_model
      /\ requests[1].input = user_input
      /\ requests[1].temperature = params.temperature
      /\ requests[1].num_predict = params.num_predict
      /\ Len(requests) = 2 <=> response.kind = "raise"
      /\ fallback # NoCall <=> response.kind = "raise"
      /\ Len(requests) = 2 =>
            /\ requests[2].api = "POST /api/generate"
            /\ requests[2].timeout = 30
            /\ requests[2].payload.stream = FALSE
            /\ requests[2].payload.model = requests[1].model
            /\ requests[2].payload.prompt = requests[1].input
            /\ requests[2].payload.options.temperature = requests[1].temperature
            /\ requests[2].payload.options.num_predict = requests[1].num_predict
      /\ fallback.kind = "raise" =>
            /\ Last(ErrorsOf(shown)) = ErrorBox("Direct API also failed", fallback.err)
            /\ EndsWithUserTurn

C8_Witness ==
    /\ app = "local"
    /\ Len(requests) = 2
    /\ params.selected_model = "mistral"
    /\ response = Raise("Timeout")
    /\ fallback = Raise("ConnectionError")

(* The try block of the hosted handler raised: the call did, or reading the *)
(* parts of the first candidate did                                         *)
FirstAttemptRaised ==
    \/ response.kind = "raise"
    \/ FirstCandidateHas(response, FINISH_STOP) /\ response.content = "none"

(* C9: in the hosted front end a submit makes one or two generation calls:  *)
(* the first under the prefixed model name, a second under the un-prefixed  *)
(* name exactly when the first attempt raised; when the second raises too   *)
(* (the call, or reading .text) an error carrying it is shown, and there is *)
(* no third call.                                                           *)
C9_AtMostOneRetry ==
    (app = "hosted" /\ requests # <<>>) =>
      /\ Len(requests) \in {1, 2}
      /\ requests[1].model_name = "models/gemini-2.5-flash"
      /\ requests[1].prompt = user_input
      /\ Len(requests) = 2 <=> FirstAttemptRaised
      /\ fallback # NoCall <=> FirstAttemptRaised
      /\ Len(requests) = 2 =>
            /\ requests[2].model_name = "gemini-2.5-flash"
            /\ requests[2].prompt = user_input
      /\ fallback.kind = "raise" =>
            Last(ErrorsOf(shown)) = ErrorBox("Alternative also failed", fallback.err)
      /\ (fallback.kind = "obj" /\ fallback.text = "raises") =>
            (Last(ErrorsOf(shown)).msg = "Alternative also failed" /\ EndsWithUserTurn)

C9_Witness ==
    /\ app = "hosted"
    /\ Len(requests) = 2
    /\ response = Raise("ConnectionError")
    /\ fallback = Raise("Timeout")

ClearJustRan == shown = <<ClearNotice>>

(* C10: in both front ends the state a clear leaves has an empty history    *)
(* and (hosted) a token estimate of 0, whatever the state it was clicked    *)
(* in, and a second clear in that state leaves history and estimate as they *)
(* are.                                                                     *)
C10_ClearResets ==
    [][ ClearJustRan' =>
          /\ messages' = <<>>
          /\ app = "hosted" => total_tokens' = 0
          /\ Cleared' = [messages |-> messages', total_tokens |-> total_tokens']
          /\ <<app', user_input', params'>> = <<app, user_input, params>> ]_vars

C10_Witness ==
    /\ ClearJustRan
    /\ app = "hosted"
    /\ messages = <<>>
    /\ total_tokens = 0
    /\ user_input # <<>>

(* C11: in both front ends every step other than a clear keeps the history  *)
(* before the step as an unchanged prefix of the history after it, and in   *)
(* the hosted front end does not lower the token estimate.                  *)
C11_AppendOnly ==
    [][ ~ClearJustRan' =>
          /\ Len(messages') >= Len(messages)
          /\ SubSeq(messages', 1, Len(messages)) = messages
          /\ app = "hosted" => total_tokens' >= total_tokens ]_vars

C11_Witness ==
    /\ app = "hosted"
    /\ Len(requests) = 1
    /\ Len(messages) = 4
    /\ Last(messages).role = "assistant"
    /\ total_tokens >= 4

(* C12: in the hosted front end every generation request of a submit, the   *)
(* alternate-model-name retry included, carries the prompt and the          *)
(* temperature, max_output_tokens, top_p and top_k of the UI controls.      *)
C12_RequestsCarryControls ==
    (app = "hosted" /\ requests # <<>>) =>
      \A i \in 1..Len(requests) :
        /\ requests[i].prompt = user_input
        /\ requests[i].generation_config =
             [temperature |-> params.temperature, max_output_tokens |-> params.max_tokens,
              top_p |-> params.top_p, top_k |-> params.top_k]

(* C13: in both front ends a send on an empty text area, a quick-action or  *)
(* example button, a connection check and a change of a parameter control   *)
(* leave history and token estimate as they are and issue no generation     *)
(* request; the history or the estimate changes, and a generation request   *)
(* is issued, only in a send with non-empty input or (history, estimate) in *)
(* a clear.                                                                 *)
C13_Frame ==
    [][ /\ (SendEmpty \/ QuickAction \/ CheckConnection \/ SetParams) =>
             (messages' = messages /\ total_tokens' = total_tokens /\ requests' = <<>>)
        /\ (messages' # messages \/ total_tokens' # total_tokens) =>
             (ClearJustRan' \/ (requests' # <<>> /\ user_input # <<>>))
        /\ requests' # <<>> => user_input # <<>> ]_vars

C13_Witness ==
    /\ app = "local"
    /\ shown = <<SuccessBox("Ollama is running!")>>
    /\ requests = <<>>
    /\ Len(messages) = 2
    /\ user_input \in QuickQuestions
    /\ params # DefaultParams(app)

====
